---- MODULE Spec2Model ----
(***************************************************************************)
(* Model of the assistive-navigation front end (src/src/App.tsx): the      *)
(* camera lifecycle, the two periodic activities (display refresh and      *)
(* auto-process), the processing request/response handler, the zone        *)
(* classifier, the navigation decision engine and the speech coordinator.  *)
(*                                                                         *)
(* The component is a React function component.  Every handler is a        *)
(* closure of the render in which it was created, so it reads the state    *)
(* values of that render, not the values current when it runs.  The model  *)
(* keeps those captured values explicitly:                                 *)
(*   - a click handler is the closure of the latest render, so it captures *)
(*     the state at the time of the click;                                 *)
(*   - the auto-process interval callback is the closure of the render in  *)
(*     which the effect with dependencies [autoProcess, isCameraRunning]   *)
(*     last ran;                                                           *)
(*   - the continuation of an async handler after its await keeps the      *)
(*     closure of the call.                                                *)
(* Refs (imgRef, intervalRef, processIntervalRef) are shared and current.  *)
(* The canvas is written by drawDirectionOverlay and read by nothing: the  *)
(* session keeps no surface, and what a render paints is the value of      *)
(* drawDirectionOverlay for the closure that calls it.  The session leaves *)
(* the two display checkboxes at their initial value (ticked).             *)
(* The state updates of one synchronous run of a handler are applied       *)
(* together, and the render and effects they cause are part of that step.  *)
(***************************************************************************)
EXTENDS Integers, Sequences, FiniteSets, TLC

(***************************************************************************)
(* Bounds of the model.                                                    *)
(***************************************************************************)
MaxRequests == 2        \* processing requests outstanding at once
MaxPendingStarts == 1   \* camera-start requests outstanding at once
MaxPendingStops == 1    \* camera-stop requests outstanding at once
MaxStartTimeouts == 1   \* pending setTimeout(startFrameStreaming, 500)
MaxFetches == 1         \* frame fetches outstanding at once
MaxFrameCount == 1      \* frames counted by one display-refresh interval
MaxObjects == 2         \* objects in an engine input of the engine specification
MaxCoord == 6           \* largest x coordinate of the engine specification

(***************************************************************************)
(* Data: DetectedObject, ProcessingResult, NavigationInstruction.          *)
(***************************************************************************)
DefaultWidth == 640

NoResult == [caption |-> "null", detected_objects |-> <<>>]
NoInstruction == [direction |-> "null", priority |-> "null",
                  message |-> "", reason |-> ""]
NoImage == "null"

DetectedObject(label, x1, x2) ==
    [label |-> label, confidence |-> 90, bounding_box |-> <<x1, 0, x2, 10>>]

ProcessingResult(caption, objs) ==
    [caption |-> caption, detected_objects |-> objs]

dangerousObjects ==
    {"person", "car", "truck", "bicycle", "motorcycle",
     "chair", "table", "bench", "couch", "bed"}

\* String.prototype.toLowerCase over the labels the model uses.
toLowerCase(s) ==
    CASE s = "Person" -> "person"
      [] s = "CHAIR"  -> "chair"
      [] OTHER        -> s

\* Array.prototype.join
RECURSIVE join(_, _)
join(s, sep) ==
    IF s = <<>> THEN ""
    ELSE IF Len(s) = 1 THEN s[1]
    ELSE s[1] \o sep \o join(Tail(s), sep)

\* Array.prototype.map(o => o.label)
labels(objs) == [i \in 1..Len(objs) |-> objs[i].label]

\* Array.prototype.slice(0, n)
slice0(s, n) == IF Len(s) <= n THEN s ELSE SubSeq(s, 1, n)

\* imgRef.current?.naturalWidth || 640
widthOr640(naturalW) == IF naturalW = 0 THEN DefaultWidth ELSE naturalW

(***************************************************************************)
(* Zone classifier.  centerX = (x1 + x2) / 2 is compared with width / 3    *)
(* and 2 * width / 3; both sides are multiplied by 6 to stay in integers:  *)
(*   centerX <  width / 3      <=>  3 * (x1 + x2) < 2 * width              *)
(*   centerX >  2 * width / 3  <=>  3 * (x1 + x2) > 4 * width              *)
(* `res` is the `result` state of the closure the function belongs to.     *)
(***************************************************************************)
\* Variant: a centre exactly at width / 3 counts as RIGHT.
inZoneClosedRight(zone, obj, width) ==
    LET x1 == obj.bounding_box[1]
        x2 == obj.bounding_box[3]
    IN  \/ zone = "right" /\ 3 * (x1 + x2) <= 2 * width
        \/ zone = "left"  /\ 3 * (x1 + x2) > 4 * width
        \/ zone = "front" /\ 3 * (x1 + x2) > 2 * width
                          /\ 3 * (x1 + x2) <= 4 * width

inZone(zone, obj, width) ==
    LET x1 == obj.bounding_box[1]
        x2 == obj.bounding_box[3]
    IN  \/ zone = "right" /\ 3 * (x1 + x2) < 2 * width
        \/ zone = "left"  /\ 3 * (x1 + x2) > 4 * width
        \/ zone = "front" /\ 3 * (x1 + x2) >= 2 * width
                          /\ 3 * (x1 + x2) <= 4 * width

getObjectsInZone(zone, res, naturalW) ==
    IF res = NoResult THEN <<>>
    ELSE LET width == widthOr640(naturalW)
         IN  SelectSeq(res.detected_objects,
                       LAMBDA obj : inZone(zone, obj, width))

isDangerous(obj) == toLowerCase(obj.label) \in dangerousObjects

(***************************************************************************)
(* Navigation decision engine.  `objects` is the argument; the zones are   *)
(* taken from `res`, the `result` state of the enclosing closure.          *)
(***************************************************************************)
generateNavigationInstructions(objects, res, naturalW) ==
    LET leftObjects  == getObjectsInZone("left", res, naturalW)
        frontObjects == getObjectsInZone("front", res, naturalW)
        rightObjects == getObjectsInZone("right", res, naturalW)
        leftDanger   == SelectSeq(leftObjects, isDangerous)
        frontDanger  == SelectSeq(frontObjects, isDangerous)
        rightDanger  == SelectSeq(rightObjects, isDangerous)
    IN  IF Len(frontDanger) > 0 THEN
            IF Len(leftDanger) = 0 THEN
                [direction |-> "left", priority |-> "caution",
                 message |-> "Path blocked ahead. Move left.",
                 reason |-> "Obstacle detected: " \o join(labels(frontDanger), ", ")]
            ELSE IF Len(rightDanger) = 0 THEN
                [direction |-> "right", priority |-> "caution",
                 message |-> "Path blocked ahead. Move right.",
                 reason |-> "Obstacle detected: " \o join(labels(frontDanger), ", ")]
            ELSE
                [direction |-> "stop", priority |-> "danger",
                 message |-> "Stop! Obstacles in all directions.",
                 reason |-> "Multiple obstacles detected"]
        ELSE IF Len(leftObjects) = 0 /\ Len(rightObjects) = 0 THEN
            [direction |-> "forward", priority |-> "safe",
             message |-> "Clear path ahead. Safe to proceed.",
             reason |-> "No obstacles detected"]
        ELSE IF Len(leftDanger) > 0 /\ Len(rightDanger) = 0 THEN
            [direction |-> "right", priority |-> "caution",
             message |-> "Obstacle on left. Stay right.",
             reason |-> "Left side: " \o join(labels(leftDanger), ", ")]
        ELSE IF Len(rightDanger) > 0 /\ Len(leftDanger) = 0 THEN
            [direction |-> "left", priority |-> "caution",
             message |-> "Obstacle on right. Stay left.",
             reason |-> "Right side: " \o join(labels(rightDanger), ", ")]
        ELSE
            [direction |-> "forward", priority |-> "caution",
             message |-> "Proceed with caution. Objects nearby.",
             reason |-> "Detected: " \o join(labels(slice0(objects, 3)), ", ")]

(***************************************************************************)
(* Overlay renderer.  The drawing surface is the canvas width, the paint   *)
(* operations composited on it since it was last cleared, in paint order,  *)
(* and the textAlign of its 2D context.  Horizontal positions are exact    *)
(* fractions <<numerator, denominator>>; the vertical axis is scaled the   *)
(* same way and is left out.  `capResult`, `capDirections` and `capBoxes`  *)
(* are the result, showDirections and showBoundingBoxes of the closure the *)
(* function belongs to.                                                    *)
(***************************************************************************)
\* The native width of the frames the camera delivers.
FrameWidth == 640

\* imgRef.current.width: the <img> is laid out at the native width.
DisplayWidth == FrameWidth

\* A canvas that has just been mounted: nothing painted, not sized by a
\* render yet (width 0).
BlankCanvas == [width |-> 0, ops |-> <<>>, textAlign |-> "start"]

\* canvas.width = ...: sizing a canvas clears it and resets its context.
sized(width) == [width |-> width, ops |-> <<>>, textAlign |-> "start"]

\* Variant: a centre exactly at a third of the width is coloured as the side
\* zone.
boxColorClosed(obj, origWidth) ==
    LET x1 == obj.bounding_box[1]
        x2 == obj.bounding_box[3]
    IN  IF 3 * (x1 + x2) <= 2 * origWidth THEN "#4CAF50"
        ELSE IF 3 * (x1 + x2) >= 4 * origWidth THEN "#FF9800"
        ELSE "#2196F3"

\* The colour of a box and its tag (lines 335-341).
boxColor(obj, origWidth) ==
    LET x1 == obj.bounding_box[1]
        x2 == obj.bounding_box[3]
    IN  IF 3 * (x1 + x2) < 2 * origWidth THEN "#4CAF50"
        ELSE IF 3 * (x1 + x2) > 4 * origWidth THEN "#FF9800"
        ELSE "#2196F3"

zoneOrder == <<"right", "front", "left">>

bandColor(zone) ==
    CASE zone = "right" -> "#4CAF50"
      [] zone = "front" -> "#2196F3"
      [] OTHER          -> "#FF9800"

\* fillRect(k * width / 3, 0, width / 3, height) at globalAlpha 0.2, for the
\* zones that hold an object of the closure's result.
bands(capResult, naturalW, width) ==
    LET occupied == SelectSeq([k \in 1..3 |-> k],
                       LAMBDA k : Len(getObjectsInZone(zoneOrder[k], capResult,
                                                       naturalW)) > 0)
    IN  [i \in 1..Len(occupied) |->
            [op |-> "band", zone |-> zoneOrder[occupied[i]],
             color |-> bandColor(zoneOrder[occupied[i]]), alpha |-> 20,
             x |-> <<(occupied[i] - 1) * width, 3>>, w |-> <<width, 3>>]]

\* strokeRect and the label tag of one object, drawn with the textAlign the
\* context has at that point.
boxAndTag(obj, naturalW, width, align) ==
    LET orig == widthOr640(naturalW)
    IN  << [op |-> "box", color |-> boxColor(obj, orig),
            x1 |-> <<obj.bounding_box[1] * width, orig>>,
            x2 |-> <<obj.bounding_box[3] * width, orig>>],
           [op |-> "tag", color |-> boxColor(obj, orig),
            label |-> obj.label, percent |-> obj.confidence,
            x |-> <<obj.bounding_box[1] * width, orig>>, align |-> align] >>

RECURSIVE boxes(_, _, _, _)
boxes(objs, naturalW, width, align) ==
    IF objs = <<>> THEN <<>>
    ELSE boxAndTag(Head(objs), naturalW, width, align)
            \o boxes(Tail(objs), naturalW, width, align)

\* The banner of each occupied zone, centred at width / 6, width / 2 and
\* 5 * width / 6.
banners(capResult, naturalW, width) ==
    LET occupied == SelectSeq([k \in 1..3 |-> k],
                       LAMBDA k : Len(getObjectsInZone(zoneOrder[k], capResult,
                                                       naturalW)) > 0)
    IN  [i \in 1..Len(occupied) |->
            [op |-> "banner", zone |-> zoneOrder[occupied[i]],
             x |-> <<(2 * occupied[i] - 1) * width, 6>>, align |-> "center"]]

\* Variant: the surface is neither sized nor cleared before drawing.
drawOverlayWithoutClear(surface, capDirections, capBoxes, capResult, naturalW) ==
    IF ~capDirections THEN surface
    ELSE IF capResult = NoResult \/ ~capBoxes THEN surface
    ELSE [width |-> DisplayWidth,
          ops |-> surface.ops
                    \o bands(capResult, naturalW, DisplayWidth)
                    \o boxes(capResult.detected_objects, naturalW, DisplayWidth,
                             surface.textAlign)
                    \o banners(capResult, naturalW, DisplayWidth),
          textAlign |-> "center"]

\* drawDirectionOverlay() on a mounted canvas and image: the surface it
\* leaves.
drawDirectionOverlay(surface, capDirections, capBoxes, capResult, naturalW) ==
    IF ~capDirections THEN surface
    ELSE LET cleared == sized(DisplayWidth)
         IN  IF capResult = NoResult \/ ~capBoxes THEN cleared
             ELSE [width |-> DisplayWidth,
                   ops |-> cleared.ops
                             \o bands(capResult, naturalW, DisplayWidth)
                             \o boxes(capResult.detected_objects, naturalW,
                                      DisplayWidth, cleared.textAlign)
                             \o banners(capResult, naturalW, DisplayWidth),
                   textAlign |-> "center"]

(***************************************************************************)
(* State.                                                                  *)
(***************************************************************************)
VARIABLES
    isCameraRunning,        \* useState(false)
    isProcessing,           \* useState(false)
    autoProcess,            \* useState(false)
    voiceEnabled,           \* useState(false)
    result,                 \* useState<ProcessingResult | null>(null)
    navigationInstructions, \* useState<NavigationInstruction | null>(null)
    annotatedImage,         \* useState<string | null>(null)
    frameCount,             \* useState(0)
    error,                  \* useState('')
    imgSrc,                 \* imgRef.current.src holds a frame
    intervalRef,            \* display-refresh interval: 0 (null) or its handle
    count,                  \* the local `count` of each display-refresh interval
    frameFetches,           \* frame fetches in flight: the handle of their interval
    processIntervalRef,     \* auto-process interval: NoInterval or its closure
    startRequests,          \* camera-start requests in flight, with their closure
    stopRequests,           \* camera-stop requests in flight, with their closure
    startTimeouts,          \* pending setTimeout(() => startFrameStreaming(), 500)
    requests,               \* processing requests in flight, with their closure
    speech,                 \* window.speechSynthesis: the utterance being
                            \* spoken (head) and the utterances queued behind it
    startAcked,             \* history: some camera-start call was answered 2xx
    engineCall,             \* engine specification: the last call and its results
    overlayCall,            \* overlay specification: the renders and the surface
    timers                  \* the display-refresh intervals created by
                            \* setInterval and not cleared since

vars == <<isCameraRunning, isProcessing, autoProcess, voiceEnabled, result,
          navigationInstructions, annotatedImage, frameCount, error, imgSrc,
          intervalRef, count, frameFetches, processIntervalRef, startRequests,
          stopRequests, startTimeouts, requests, speech, startAcked, engineCall,
          overlayCall, timers>>

IntervalIds == 1..(MaxFetches + 1)
NoInterval == [active |-> FALSE, capResult |-> NoResult, capVoice |-> FALSE]
NoCall == [called |-> FALSE]

\* imgRef.current?.naturalWidth: the <img> is mounted only while the camera
\* is rendered as running, and has a natural width once a frame is loaded.
naturalWidth == IF isCameraRunning /\ imgSrc THEN FrameWidth ELSE 0

\* Remove the i-th element of a sequence.
RemoveAt(s, i) == [j \in 1..(Len(s) - 1) |-> IF j < i THEN s[j] ELSE s[j + 1]]

(***************************************************************************)
(* The results the backend may return to a processing request.             *)
(***************************************************************************)
Results ==
    { ProcessingResult("empty", <<>>),
      ProcessingResult("person ahead", <<DetectedObject("person", 300, 340)>>) }

ImagePayloads == {"", "data:image/png;base64,QUJD"}

\* annotatedImageData.startsWith('data:image') over the payloads above.
startsWithDataImage(s) == s = "data:image/png;base64,QUJD"

\* The answers as processFrame reads them: the envelope it recognises, the
\* result and annotated image it extracts, and the `detail` of a non-2xx body.
Responses ==
    [kind : {"nested", "flat"}, data : Results, image : ImagePayloads,
     detail : {""}]
      \cup [kind : {"invalid", "http_error", "exception"},
            data : {NoResult}, image : {""}, detail : {""}]

(***************************************************************************)
(* The JSON body of an answer.  A 2xx body of POST /process_camera carries *)
(* the result under `data` ("nested") or at the top level ("flat");        *)
(* `fields` are the result fields that are present, with the values of     *)
(* `data`.  A non-2xx body carries a message under `error`, under          *)
(* `detail`, under both or under neither ("" when the key is absent).      *)
(***************************************************************************)
\* What reading an absent caption gives.
undefined == "undefined"

EnvelopeResults ==
    Results \cup { ProcessingResult("", <<DetectedObject("person", 300, 340)>>) }

ErrorBodies ==
    [error : {"", "Camera not available"}, detail : {"", "Model not loaded"}]

NoBody == [error |-> "", detail |-> ""]

Bodies ==
    [status : {"2xx"}, envelope : {"nested", "flat"},
     fields : SUBSET {"caption", "detected_objects"}, data : EnvelopeResults,
     image : ImagePayloads, error : {""}, detail : {""}]
      \cup [status : {"non2xx"}, envelope : {"flat"}, fields : {{}},
            data : {NoResult}, image : {""},
            error : {"", "Camera not available"},
            detail : {"", "Model not loaded"}]

\* The object a body carries as its result: an absent caption reads as
\* undefined; an absent detected_objects is read as no objects by every
\* reader of the held result (`!result.detected_objects`, `detectedObjects &&`).
resultOf(body) ==
    ProcessingResult(IF "caption" \in body.fields THEN body.data.caption
                                                  ELSE undefined,
                     IF "detected_objects" \in body.fields
                     THEN body.data.detected_objects ELSE <<>>)

\* The answer processFrame reads from a body: `if (data.data)` takes whatever
\* object is under `data`; `else if (data.caption && data.detected_objects)`
\* takes the body itself when the caption is a non-empty string and the list
\* is present; anything else is an unknown structure.
parse(body) ==
    IF body.status # "2xx"
    THEN [kind |-> "http_error", data |-> NoResult, image |-> "",
          detail |-> body.detail]
    ELSE IF body.envelope = "nested"
    THEN [kind |-> "nested", data |-> resultOf(body), image |-> body.image,
          detail |-> ""]
    ELSE IF /\ "caption" \in body.fields /\ body.data.caption # ""
            /\ "detected_objects" \in body.fields
    THEN [kind |-> "flat", data |-> resultOf(body), image |-> body.image,
          detail |-> ""]
    ELSE [kind |-> "invalid", data |-> NoResult, image |-> "", detail |-> ""]

\* errorData.detail || 'Processing failed'
processingError(resp) ==
    IF resp.detail # "" THEN resp.detail ELSE "Processing failed"

\* data.error || 'Failed to start camera'
startError(body) ==
    IF body.error # "" THEN body.error ELSE "Failed to start camera"

(***************************************************************************)
(* Voice feedback: speak(text) of a closure whose voiceEnabled is capVoice *)
(* cancels the utterance in progress (speechSynthesis.cancel() empties the *)
(* queue) and speaks text (speechSynthesis.speak() appends to the queue);  *)
(* otherwise it is a no-op.  The result is the queue afterwards.           *)
(***************************************************************************)
\* speechSynthRef.current with its text; `replaced` records the text of the
\* utterance that the cancel() before it cut short ("" when none was spoken).
Utterance(text, replaced) == [text |-> text, replaced |-> replaced]

\* Variant: speak without the cancel().
speakWithoutCancel(text, capVoice) ==
    IF capVoice THEN Append(speech, Utterance(text, "")) ELSE speech

speak(text, capVoice) ==
    IF capVoice
    THEN <<Utterance(text, IF speech = <<>> THEN "" ELSE speech[1].text)>>
    ELSE speech

(***************************************************************************)
(* The effect with dependencies [autoProcess, isCameraRunning] (lines      *)
(* 70-88), run for the state after a handler: the previous interval is     *)
(* cleared and, when both flags hold, a new interval is created whose      *)
(* callback is the processFrame of that render.                            *)
(***************************************************************************)
autoProcessEffect(auto, running, res, voice) ==
    IF auto = autoProcess /\ running = isCameraRunning
    THEN processIntervalRef
    ELSE IF auto /\ running
         THEN [active |-> TRUE, capResult |-> res, capVoice |-> voice]
         ELSE NoInterval

InitSession ==
    /\ isCameraRunning = FALSE
    /\ isProcessing = FALSE
    /\ autoProcess = FALSE
    /\ voiceEnabled = FALSE
    /\ result = NoResult
    /\ navigationInstructions = NoInstruction
    /\ annotatedImage = NoImage
    /\ frameCount = 0
    /\ error = ""
    /\ imgSrc = FALSE
    /\ intervalRef = 0
    /\ count = [i \in IntervalIds |-> 0]
    /\ frameFetches = <<>>
    /\ processIntervalRef = NoInterval
    /\ startRequests = <<>>
    /\ stopRequests = <<>>
    /\ startTimeouts = 0
    /\ requests = <<>>
    /\ speech = <<>>
    /\ startAcked = FALSE
    /\ timers = {}

Init ==
    /\ InitSession
    /\ engineCall = NoCall
    /\ overlayCall = NoCall

(***************************************************************************)
(* Camera lifecycle.                                                       *)
(***************************************************************************)
\* The Start Camera button (rendered while !isCameraRunning): startCamera up
\* to its await.
StartCameraClick ==
    /\ ~isCameraRunning
    /\ Len(startRequests) < MaxPendingStarts
    /\ error' = ""
    /\ startRequests' = Append(startRequests, [capVoice |-> voiceEnabled])
    /\ UNCHANGED <<isCameraRunning, isProcessing, autoProcess, voiceEnabled,
                   result, navigationInstructions, annotatedImage, frameCount,
                   imgSrc, intervalRef, count, frameFetches, processIntervalRef,
                   stopRequests, startTimeouts, requests, speech, startAcked,
                   engineCall, overlayCall, timers>>

\* Variant: the timeout is scheduled whatever the answer.
scheduleStreamingAlways(outcome) == startTimeouts + 1

\* setTimeout(() => startFrameStreaming(), 500) is reached only in the
\* response.ok branch: the number of pending timeouts after the handler.
scheduleStreaming(outcome) ==
    IF outcome = "ok" THEN startTimeouts + 1 ELSE startTimeouts

\* startCamera after its await: the answer is 2xx ("ok"), not 2xx ("fail"),
\* or the fetch throws ("throw"); body is the JSON of a non-2xx answer.
startCamera(i, outcome, body) ==
    LET r == startRequests[i] IN
    /\ startRequests' = RemoveAt(startRequests, i)
    /\ scheduleStreaming(outcome) <= MaxStartTimeouts
    /\ startTimeouts' = scheduleStreaming(outcome)
    /\ IF outcome = "ok" THEN
            /\ isCameraRunning' = TRUE
            /\ error' = ""
            /\ speech' = speak("Camera started", r.capVoice)
            /\ startAcked' = TRUE
            /\ processIntervalRef' =
                   autoProcessEffect(autoProcess, TRUE, result, voiceEnabled)
       ELSE IF outcome = "fail" THEN
            /\ error' = startError(body)
            /\ speech' = speak("Camera failed to start", r.capVoice)
            /\ UNCHANGED <<isCameraRunning, startAcked, processIntervalRef>>
       ELSE
            /\ error' = "Error connecting to server"
            /\ speech' = speak("Error connecting to server", r.capVoice)
            /\ UNCHANGED <<isCameraRunning, startAcked, processIntervalRef>>
    /\ UNCHANGED <<isProcessing, autoProcess, voiceEnabled, result,
                   navigationInstructions, annotatedImage, frameCount, imgSrc,
                   intervalRef, count, frameFetches, stopRequests, requests,
                   engineCall, overlayCall, timers>>

StartCameraResponse ==
    \E i \in 1..Len(startRequests) : \E outcome \in {"ok", "fail", "throw"} :
        startCamera(i, outcome, NoBody)

\* The `count` of an interval that is cleared and has no fetch in flight is
\* reachable from no callback any more; the model forgets it.
released(cnt, ref, fetches) ==
    [id \in IntervalIds |->
        IF id = ref \/ \E k \in 1..Len(fetches) : fetches[k] = id
        THEN cnt[id] ELSE 0]

\* A handle for a new interval: one that no frame fetch in flight refers to.
\* The interval being replaced ticks no more, so its handle is free as well.
freeInterval ==
    CHOOSE id \in IntervalIds :
        /\ \A k \in 1..Len(frameFetches) : frameFetches[k] # id
        /\ \A id2 \in IntervalIds :
               (\A k \in 1..Len(frameFetches) : frameFetches[k] # id2) => id <= id2

\* Variant: the interval held in intervalRef is not cleared.
clearIntervalSkipped(ids, ref) == ids

\* if (intervalRef.current) clearInterval(intervalRef.current): the intervals
\* still active afterwards.
clearInterval(ids, ref) == ids \ {ref}

\* The 500 ms timeout of a successful start fires: startFrameStreaming().
startFrameStreaming ==
    /\ startTimeouts > 0
    /\ startTimeouts' = startTimeouts - 1
    /\ intervalRef' = freeInterval
    /\ timers' = clearInterval(timers, intervalRef) \cup {freeInterval}
    /\ count' = released([count EXCEPT ![freeInterval] = 0],
                         freeInterval, frameFetches)
    /\ UNCHANGED <<isCameraRunning, isProcessing, autoProcess, voiceEnabled,
                   result, navigationInstructions, annotatedImage, frameCount,
                   error, imgSrc, frameFetches, processIntervalRef,
                   startRequests, stopRequests, requests, speech, startAcked,
                   engineCall, overlayCall>>

\* stopFrameStreaming(): the value of intervalRef.current afterwards.
stopFrameStreaming == 0

\* The Stop Camera button (rendered while isCameraRunning): stopCamera up to
\* its await.
\* The request carries its fate: whether the fetch will resolve (with any
\* status) or throw.
StopCameraClick ==
    /\ isCameraRunning
    /\ Len(stopRequests) < MaxPendingStops
    /\ \E resolves \in BOOLEAN :
           stopRequests' = Append(stopRequests, [capVoice |-> voiceEnabled,
                                                 resolves |-> resolves])
    /\ UNCHANGED <<isCameraRunning, isProcessing, autoProcess, voiceEnabled,
                   result, navigationInstructions, annotatedImage, frameCount,
                   error, imgSrc, intervalRef, count, frameFetches,
                   processIntervalRef, startRequests, startTimeouts, requests,
                   speech, startAcked, engineCall, overlayCall, timers>>

\* A processing request that is in flight when a stop completes.
markStale(r) == [r EXCEPT !.stale = TRUE]

\* Variant: stopCamera without setAutoProcess(false).
stoppedSessionKeepsAuto ==
    [isCameraRunning |-> FALSE, autoProcess |-> autoProcess, frameCount |-> 0,
     result |-> NoResult, navigationInstructions |-> NoInstruction,
     annotatedImage |-> NoImage]

\* Variant: stopCamera flips autoProcess instead of clearing it.
stoppedSessionTogglesAuto ==
    [isCameraRunning |-> FALSE, autoProcess |-> ~autoProcess, frameCount |-> 0,
     result |-> NoResult, navigationInstructions |-> NoInstruction,
     annotatedImage |-> NoImage]

\* Variant: stopCamera without setResult(null).
stoppedSessionKeepsResult ==
    [isCameraRunning |-> FALSE, autoProcess |-> FALSE, frameCount |-> 0,
     result |-> result, navigationInstructions |-> NoInstruction,
     annotatedImage |-> NoImage]

\* The values the setters of stopCamera give the session state.
stoppedSession ==
    [isCameraRunning |-> FALSE, autoProcess |-> FALSE, frameCount |-> 0,
     result |-> NoResult, navigationInstructions |-> NoInstruction,
     annotatedImage |-> NoImage]

\* Variant: stopFrameStreaming() runs whether or not the fetch resolves.
stopCameraClearsFirst(i) ==
    LET r == stopRequests[i] IN
    /\ stopRequests' = RemoveAt(stopRequests, i)
    /\ IF r.resolves THEN
            /\ isCameraRunning' = stoppedSession.isCameraRunning
            /\ autoProcess' = stoppedSession.autoProcess
            /\ intervalRef' = stopFrameStreaming
            /\ timers' = clearInterval(timers, intervalRef)
            /\ imgSrc' = FALSE
            /\ frameCount' = stoppedSession.frameCount
            /\ result' = stoppedSession.result
            /\ navigationInstructions' = stoppedSession.navigationInstructions
            /\ annotatedImage' = stoppedSession.annotatedImage
            /\ speech' = speak("Camera stopped", r.capVoice)
            /\ processIntervalRef' =
                   autoProcessEffect(stoppedSession.autoProcess,
                                     stoppedSession.isCameraRunning,
                                     stoppedSession.result, voiceEnabled)
            /\ requests' = [k \in 1..Len(requests) |-> markStale(requests[k])]
            /\ count' = released(count, stopFrameStreaming, frameFetches)
            /\ UNCHANGED error
       ELSE
            /\ error' = "Error stopping camera"
            /\ intervalRef' = stopFrameStreaming
            /\ timers' = clearInterval(timers, intervalRef)
            /\ count' = released(count, stopFrameStreaming, frameFetches)
            /\ UNCHANGED <<isCameraRunning, autoProcess, imgSrc,
                           frameCount, result, navigationInstructions,
                           annotatedImage, speech, processIntervalRef,
                           requests>>
    /\ UNCHANGED <<isProcessing, voiceEnabled, frameFetches,
                   startRequests, startTimeouts, startAcked, engineCall,
                   overlayCall>>

\* stopCamera after its await: the fetch resolved (whatever its status), or
\* it threw.
stopCamera(i) ==
    LET r == stopRequests[i] IN
    /\ stopRequests' = RemoveAt(stopRequests, i)
    /\ IF r.resolves THEN
            /\ isCameraRunning' = stoppedSession.isCameraRunning
            /\ autoProcess' = stoppedSession.autoProcess
            /\ intervalRef' = stopFrameStreaming
            /\ timers' = clearInterval(timers, intervalRef)
            /\ imgSrc' = FALSE
            /\ frameCount' = stoppedSession.frameCount
            /\ result' = stoppedSession.result
            /\ navigationInstructions' = stoppedSession.navigationInstructions
            /\ annotatedImage' = stoppedSession.annotatedImage
            /\ speech' = speak("Camera stopped", r.capVoice)
            /\ processIntervalRef' =
                   autoProcessEffect(stoppedSession.autoProcess,
                                     stoppedSession.isCameraRunning,
                                     stoppedSession.result, voiceEnabled)
            /\ requests' = [k \in 1..Len(requests) |-> markStale(requests[k])]
            /\ count' = released(count, stopFrameStreaming, frameFetches)
            /\ UNCHANGED error
       ELSE
            /\ error' = "Error stopping camera"
            /\ UNCHANGED <<isCameraRunning, autoProcess, intervalRef, imgSrc,
                           frameCount, result, navigationInstructions,
                           annotatedImage, speech, processIntervalRef, requests,
                           count, timers>>
    /\ UNCHANGED <<isProcessing, voiceEnabled, frameFetches,
                   startRequests, startTimeouts, startAcked, engineCall,
                   overlayCall>>

StopCameraResponse ==
    \E i \in 1..Len(stopRequests) : stopCamera(i)

(***************************************************************************)
(* Display refresh: the interval callback of startFrameStreaming.          *)
(***************************************************************************)
inFlightOf(id) ==
    Cardinality({k \in 1..Len(frameFetches) : frameFetches[k] = id})

\* A tick of the display-refresh interval: the callback up to its await.
FrameTick ==
    /\ intervalRef # 0
    /\ Len(frameFetches) < MaxFetches
    /\ count[intervalRef] + inFlightOf(intervalRef) < MaxFrameCount
    /\ frameFetches' = Append(frameFetches, intervalRef)
    /\ UNCHANGED <<isCameraRunning, isProcessing, autoProcess, voiceEnabled,
                   result, navigationInstructions, annotatedImage, frameCount,
                   error, imgSrc, intervalRef, count, processIntervalRef,
                   startRequests, stopRequests, startTimeouts, requests,
                   speech, startAcked, engineCall, overlayCall, timers>>

\* Variant: a failed fetch blanks the displayed frame.
frameFetchedOrBlank(k, ok) ==
    LET id == frameFetches[k] IN
    /\ frameFetches' = RemoveAt(frameFetches, k)
    /\ IF ok THEN
            /\ imgSrc' = (isCameraRunning \/ imgSrc)
            /\ count' = released([count EXCEPT ![id] = count[id] + 1],
                                 intervalRef, frameFetches')
            /\ frameCount' = count[id] + 1
       ELSE /\ count' = released(count, intervalRef, frameFetches')
            /\ imgSrc' = FALSE
            /\ UNCHANGED frameCount
    /\ UNCHANGED <<isCameraRunning, isProcessing, autoProcess, voiceEnabled,
                   result, navigationInstructions, annotatedImage, error,
                   intervalRef, processIntervalRef, startRequests,
                   stopRequests, startTimeouts, requests, speech, startAcked,
                   engineCall, overlayCall, timers>>

\* Variant: a failed fetch clears the display-refresh interval.
frameFetchedOrStopped(k, ok) ==
    LET id == frameFetches[k] IN
    /\ frameFetches' = RemoveAt(frameFetches, k)
    /\ intervalRef' = IF ok THEN intervalRef ELSE 0
    /\ timers' = IF ok THEN timers ELSE {}
    /\ IF ok THEN
            /\ imgSrc' = (isCameraRunning \/ imgSrc)
            /\ count' = released([count EXCEPT ![id] = count[id] + 1],
                                 intervalRef, frameFetches')
            /\ frameCount' = count[id] + 1
       ELSE /\ count' = released(count, 0, frameFetches')
            /\ UNCHANGED <<imgSrc, frameCount>>
    /\ UNCHANGED <<isCameraRunning, isProcessing, autoProcess, voiceEnabled,
                   result, navigationInstructions, annotatedImage, error,
                   processIntervalRef, startRequests,
                   stopRequests, startTimeouts, requests, speech, startAcked,
                   engineCall, overlayCall>>

\* The callback after its await: a 2xx answer shows the frame (when the <img>
\* is mounted) and counts it; any other answer or an exception is skipped.
frameFetched(k, ok) ==
    LET id == frameFetches[k] IN
    /\ frameFetches' = RemoveAt(frameFetches, k)
    /\ IF ok THEN
            /\ imgSrc' = (isCameraRunning \/ imgSrc)
            /\ count' = released([count EXCEPT ![id] = count[id] + 1],
                                 intervalRef, frameFetches')
            /\ frameCount' = count[id] + 1
       ELSE /\ count' = released(count, intervalRef, frameFetches')
            /\ UNCHANGED <<imgSrc, frameCount>>
    /\ UNCHANGED <<isCameraRunning, isProcessing, autoProcess, voiceEnabled,
                   result, navigationInstructions, annotatedImage, error,
                   intervalRef, processIntervalRef, startRequests,
                   stopRequests, startTimeouts, requests, speech, startAcked,
                   engineCall, overlayCall, timers>>

FrameResponse ==
    \E k \in 1..Len(frameFetches) : \E ok \in BOOLEAN : frameFetched(k, ok)

(***************************************************************************)
(* Toggles.                                                                *)
(***************************************************************************)
\* The Auto-Process checkbox (disabled while !isCameraRunning).
ToggleAutoProcess ==
    /\ isCameraRunning
    /\ autoProcess' = ~autoProcess
    /\ processIntervalRef' =
           autoProcessEffect(~autoProcess, isCameraRunning, result, voiceEnabled)
    /\ UNCHANGED <<isCameraRunning, isProcessing, voiceEnabled, result,
                   navigationInstructions, annotatedImage, frameCount, error,
                   imgSrc, intervalRef, count, frameFetches, startRequests,
                   stopRequests, startTimeouts, requests, speech, startAcked,
                   engineCall, overlayCall, timers>>

\* The Voice Guidance checkbox: the speak() it calls belongs to the render
\* before the change, so it reads the previous voiceEnabled.
ToggleVoice ==
    /\ voiceEnabled' = ~voiceEnabled
    /\ speech' = IF ~voiceEnabled
                 THEN speak("Voice guidance enabled", voiceEnabled)
                 ELSE speech
    /\ UNCHANGED <<isCameraRunning, isProcessing, autoProcess, result,
                   navigationInstructions, annotatedImage, frameCount, error,
                   imgSrc, intervalRef, count, frameFetches,
                   processIntervalRef, startRequests, stopRequests,
                   startTimeouts, requests, startAcked, engineCall, overlayCall, timers>>

\* The utterance in progress comes to its end.
SpeechEnds ==
    /\ speech # <<>>
    /\ speech' = Tail(speech)
    /\ UNCHANGED <<isCameraRunning, isProcessing, autoProcess, voiceEnabled,
                   result, navigationInstructions, annotatedImage, frameCount,
                   error, imgSrc, intervalRef, count, frameFetches,
                   processIntervalRef, startRequests, stopRequests,
                   startTimeouts, requests, startAcked, engineCall, overlayCall, timers>>

(***************************************************************************)
(* Processing requests.                                                    *)
(***************************************************************************)
\* processFrame up to its await, run in a closure whose isCameraRunning,
\* result and voiceEnabled are capRunning, capResult and capVoice.
processFrame(origin, capRunning, capResult, capVoice) ==
    IF ~capRunning THEN
        /\ error' = "Please start the camera first"
        /\ UNCHANGED <<isProcessing, requests>>
    ELSE
        /\ Len(requests) < MaxRequests
        /\ isProcessing' = TRUE
        /\ error' = ""
        /\ requests' = Append(requests,
                              [origin |-> origin, capResult |-> capResult,
                               capVoice |-> capVoice, stale |-> FALSE])

\* The Process Frame button, disabled while
\* !isCameraRunning || isProcessing || autoProcess.
ManualProcess ==
    /\ isCameraRunning /\ ~isProcessing /\ ~autoProcess
    /\ processFrame("manual", isCameraRunning, result, voiceEnabled)
    /\ UNCHANGED <<isCameraRunning, autoProcess, voiceEnabled, result,
                   navigationInstructions, annotatedImage, frameCount, imgSrc,
                   intervalRef, count, frameFetches, processIntervalRef,
                   startRequests, stopRequests, startTimeouts, speech,
                   startAcked, engineCall, overlayCall, timers>>

\* A tick of the auto-process interval.  The interval exists only in renders
\* with autoProcess && isCameraRunning, so its closure has isCameraRunning.
AutoProcessTick ==
    /\ processIntervalRef.active
    /\ processFrame("auto", TRUE, processIntervalRef.capResult,
                    processIntervalRef.capVoice)
    /\ UNCHANGED <<isCameraRunning, autoProcess, voiceEnabled, result,
                   navigationInstructions, annotatedImage, frameCount, imgSrc,
                   intervalRef, count, frameFetches, processIntervalRef,
                   startRequests, stopRequests, startTimeouts, speech,
                   startAcked, engineCall, overlayCall, timers>>

\* The displayable image reference of an annotated-image payload.
imageReference(payload) ==
    IF payload = "" THEN NoImage
    ELSE IF startsWithDataImage(payload) THEN payload
    ELSE "data:image/jpeg;base64," \o payload

\* Variant: the engine is called for an empty object list as well.
instructionForAnyList(r, resultData) ==
    generateNavigationInstructions(resultData.detected_objects,
                                   r.capResult, naturalWidth)

\* The instruction a well-formed response leaves, computed in the closure of
\* the request r.
instructionFor(r, resultData) ==
    IF Len(resultData.detected_objects) > 0
    THEN generateNavigationInstructions(resultData.detected_objects,
                                        r.capResult, naturalWidth)
    ELSE NoInstruction

\* setTimeout(() => drawDirectionOverlay(), 100) of a well-formed response:
\* the surface the redraw paints.  The drawDirectionOverlay it calls belongs
\* to the closure of the request r.
resultRender(r, naturalW) ==
    drawDirectionOverlay(BlankCanvas, TRUE, TRUE, r.capResult, naturalW)

\* Variant: the unknown-structure branch returns without resetting the flag.
inFlightAfterUnlessReturn(resp) == resp.kind = "invalid" /\ isProcessing

\* setIsProcessing(false) of the `finally` block (and of the
\* unknown-structure branch before its return): the flag after any answer.
inFlightAfter(resp) == FALSE

\* processFrame after its await.
processResponse(i, resp) ==
    LET r == requests[i] IN
    /\ requests' = RemoveAt(requests, i)
    /\ isProcessing' = inFlightAfter(resp)
    /\ IF resp.kind \in {"nested", "flat"} THEN
            /\ result' = resp.data
            /\ error' = ""
            /\ annotatedImage' = imageReference(resp.image)
            /\ navigationInstructions' = instructionFor(r, resp.data)
            /\ speech' = IF Len(resp.data.detected_objects) > 0
                         THEN speak(instructionFor(r, resp.data).message,
                                    r.capVoice)
                         ELSE speech
       ELSE IF resp.kind = "invalid" THEN
            /\ error' = "Invalid API response structure"
            /\ UNCHANGED <<result, annotatedImage, navigationInstructions,
                           speech>>
       ELSE IF resp.kind = "http_error" THEN
            /\ error' = processingError(resp)
            /\ annotatedImage' = NoImage
            /\ UNCHANGED <<result, navigationInstructions, speech>>
       ELSE
            /\ error' = "Error processing frame: TypeError: Failed to fetch"
            /\ annotatedImage' = NoImage
            /\ UNCHANGED <<result, navigationInstructions, speech>>
    /\ UNCHANGED <<isCameraRunning, autoProcess, voiceEnabled, frameCount,
                   imgSrc, intervalRef, count, frameFetches,
                   processIntervalRef, startRequests, stopRequests,
                   startTimeouts, startAcked, engineCall, overlayCall, timers>>

ProcessResponse ==
    \E i \in 1..Len(requests) : \E resp \in Responses : processResponse(i, resp)

(***************************************************************************)
(* The session.                                                            *)
(***************************************************************************)
Next ==
    \/ StartCameraClick
    \/ StartCameraResponse
    \/ startFrameStreaming
    \/ StopCameraClick
    \/ StopCameraResponse
    \/ FrameTick
    \/ FrameResponse
    \/ ToggleAutoProcess
    \/ ToggleVoice
    \/ SpeechEnds
    \/ ManualProcess
    \/ AutoProcessTick
    \/ ProcessResponse

Spec == Init /\ [][Next]_vars

(***************************************************************************)
(* The session with voice guidance left off: the user never touches the    *)
(* Voice Guidance checkbox, so voiceEnabled stays false and nothing is     *)
(* spoken.  Every other operation is as in Next.                           *)
(***************************************************************************)
NextScheduler ==
    \/ StartCameraClick
    \/ StartCameraResponse
    \/ startFrameStreaming
    \/ StopCameraClick
    \/ StopCameraResponse
    \/ FrameTick
    \/ FrameResponse
    \/ ToggleAutoProcess
    \/ ManualProcess
    \/ AutoProcessTick
    \/ ProcessResponse

SpecScheduler == Init /\ [][NextScheduler]_vars

(***************************************************************************)
(* The session with voice guidance, processing by the manual trigger: the  *)
(* camera lifecycle, the Process Frame button, the Voice Guidance checkbox *)
(* and the speech synthesiser.  The Auto-Process checkbox is left off and  *)
(* the display refresh, which reads and writes nothing an announcement     *)
(* depends on, does not tick.                                              *)
(***************************************************************************)
NextVoice ==
    \/ StartCameraClick
    \/ StartCameraResponse
    \/ startFrameStreaming
    \/ StopCameraClick
    \/ StopCameraResponse
    \/ ToggleVoice
    \/ SpeechEnds
    \/ ManualProcess
    \/ ProcessResponse

SpecVoice == Init /\ [][NextVoice]_vars

(***************************************************************************)
(* The zone classifier and the decision engine on their own: one call of   *)
(* generateNavigationInstructions(objects) in a closure whose `result` is  *)
(* res, with an <img> of natural width `width` (0: no frame loaded).  The  *)
(* closure's result is absent (first request of a session), the result     *)
(* that carries `objects` (the same answer twice in a row) or an earlier,  *)
(* different result.  processFrame calls the engine for non-empty object   *)
(* lists only; the empty input is taken with closures that hold no object. *)
(***************************************************************************)
EngineLabels == {"person", "cup", "CHAIR"}

\* Boxes with x1 < x2 <= x1 + 2 inside 0..MaxCoord.
EngineBoxes ==
    { b \in (0..MaxCoord) \X (0..MaxCoord) : b[1] < b[2] /\ b[2] <= b[1] + 2 }

EngineObjects ==
    { DetectedObject(l, b[1], b[2]) : l \in EngineLabels, b \in EngineBoxes }

\* Scenes with one object in each zone of an image of width 6 (FRONT, LEFT,
\* RIGHT in detection order), as in the README's "Multiple Obstacles" example.
EngineScenes ==
    { <<DetectedObject(lf, 2, 4), DetectedObject(ll, 4, 6),
        DetectedObject(lr, 0, 2)>> : lf \in EngineLabels, ll \in EngineLabels,
                                     lr \in EngineLabels }

EngineInputs ==
    UNION { [1..n -> EngineObjects] : n \in 0..MaxObjects } \cup EngineScenes

EngineWidths == {0, 6}

EngineClosures(objects) ==
    IF objects = <<>>
    THEN { NoResult, ProcessingResult("current", objects) }
    ELSE { NoResult,
           ProcessingResult("current", objects),
           ProcessingResult("previous", <<DetectedObject("person", 2, 4)>>) }

InitEngine ==
    /\ InitSession
    /\ overlayCall = NoCall
    /\ \E objects \in EngineInputs : \E res \in EngineClosures(objects) :
       \E width \in EngineWidths :
           engineCall = [called |-> FALSE, objects |-> objects, res |-> res,
                         width |-> width, left |-> <<>>, front |-> <<>>,
                         right |-> <<>>, nav |-> NoInstruction]

EngineCall ==
    /\ ~engineCall.called
    /\ engineCall' =
           [engineCall EXCEPT
              !.called = TRUE,
              !.left = getObjectsInZone("left", engineCall.res, engineCall.width),
              !.front = getObjectsInZone("front", engineCall.res, engineCall.width),
              !.right = getObjectsInZone("right", engineCall.res, engineCall.width),
              !.nav = generateNavigationInstructions(engineCall.objects,
                                                     engineCall.res,
                                                     engineCall.width)]
    /\ UNCHANGED <<isCameraRunning, isProcessing, autoProcess, voiceEnabled,
                   result, navigationInstructions, annotatedImage, frameCount,
                   error, imgSrc, intervalRef, count, frameFetches,
                   processIntervalRef, startRequests, stopRequests,
                   startTimeouts, requests, speech, startAcked, overlayCall,
                   timers>>

NextEngine == EngineCall

SpecEngine == InitEngine /\ [][NextEngine]_vars

(***************************************************************************)
(* Stop Camera clicked twice before the first stop request is answered: a  *)
(* running session with two stop requests in flight, and nothing else      *)
(* happening until both are answered.  The session is one that a start, an *)
(* optional first result and display-refresh frames have led to.           *)
(***************************************************************************)
StopTwiceResults ==
    { [result |-> NoResult, navigationInstructions |-> NoInstruction,
       annotatedImage |-> NoImage] }
      \cup { [result |-> res,
              navigationInstructions |->
                  IF Len(res.detected_objects) > 0
                  THEN generateNavigationInstructions(res.detected_objects,
                                                      NoResult, FrameWidth)
                  ELSE NoInstruction,
              annotatedImage |-> imageReference(payload)] :
                res \in Results, payload \in ImagePayloads }

InitStopTwice ==
    /\ isCameraRunning = TRUE
    /\ startAcked = TRUE
    /\ voiceEnabled \in BOOLEAN
    /\ autoProcess \in BOOLEAN
    /\ processIntervalRef =
           IF autoProcess
           THEN [active |-> TRUE, capResult |-> NoResult,
                 capVoice |-> voiceEnabled]
           ELSE NoInterval
    /\ \E held \in StopTwiceResults :
           /\ result = held.result
           /\ navigationInstructions = held.navigationInstructions
           /\ annotatedImage = held.annotatedImage
    /\ isProcessing \in BOOLEAN
    /\ requests = IF isProcessing
                  THEN <<[origin |-> "manual", capResult |-> result,
                          capVoice |-> voiceEnabled, stale |-> FALSE]>>
                  ELSE <<>>
    /\ intervalRef \in {0, 1}
    /\ startTimeouts = IF intervalRef = 0 THEN 1 ELSE 0
    /\ frameCount \in IF intervalRef = 0 THEN {0} ELSE 0..MaxFrameCount
    /\ imgSrc = (frameCount > 0)
    /\ count = [id \in IntervalIds |->
                   IF id = intervalRef THEN frameCount ELSE 0]
    /\ frameFetches = <<>>
    /\ startRequests = <<>>
    /\ error = ""
    /\ speech = <<>>
    /\ \E first \in BOOLEAN : \E second \in BOOLEAN :
           stopRequests = <<[capVoice |-> voiceEnabled, resolves |-> first],
                            [capVoice |-> voiceEnabled, resolves |-> second]>>
    /\ engineCall = NoCall
    /\ overlayCall = NoCall
    /\ timers = IF intervalRef = 0 THEN {} ELSE {intervalRef}

NextStopTwice == StopCameraResponse

SpecStopTwice == InitStopTwice /\ [][NextStopTwice]_vars

(***************************************************************************)
(* One request and its answer: a running session with a Process Frame      *)
(* request in flight, or a stopped session with a Start Camera request in  *)
(* flight that the backend will reject.  Each request record carries the   *)
(* body the backend will answer it with.                                   *)
(***************************************************************************)
InitEnvelopeProcess ==
    /\ isCameraRunning = TRUE
    /\ startAcked = TRUE
    /\ isProcessing = TRUE
    /\ \E held \in StopTwiceResults :
           /\ result = held.result
           /\ navigationInstructions = held.navigationInstructions
           /\ annotatedImage = held.annotatedImage
    /\ \E body \in Bodies :
           requests = <<[origin |-> "manual", capResult |-> result,
                         capVoice |-> voiceEnabled, stale |-> FALSE,
                         body |-> body]>>
    /\ startRequests = <<>>
    /\ intervalRef = 1
    /\ frameCount = 1
    /\ imgSrc = TRUE

InitEnvelopeStart ==
    /\ isCameraRunning = FALSE
    /\ startAcked = FALSE
    /\ isProcessing = FALSE
    /\ result = NoResult
    /\ navigationInstructions = NoInstruction
    /\ annotatedImage = NoImage
    /\ requests = <<>>
    /\ \E body \in ErrorBodies :
           startRequests = <<[capVoice |-> voiceEnabled, body |-> body]>>
    /\ intervalRef = 0
    /\ frameCount = 0
    /\ imgSrc = FALSE

InitEnvelope ==
    /\ voiceEnabled \in BOOLEAN
    /\ autoProcess = FALSE
    /\ processIntervalRef = NoInterval
    /\ InitEnvelopeProcess \/ InitEnvelopeStart
    /\ error = ""
    /\ count = [id \in IntervalIds |->
                   IF id = intervalRef THEN frameCount ELSE 0]
    /\ frameFetches = <<>>
    /\ stopRequests = <<>>
    /\ startTimeouts = 0
    /\ speech = <<>>
    /\ engineCall = NoCall
    /\ overlayCall = NoCall
    /\ timers = IF intervalRef = 0 THEN {} ELSE {intervalRef}

ProcessAnswered ==
    /\ requests # <<>>
    /\ processResponse(1, parse(requests[1].body))

StartRejected ==
    /\ startRequests # <<>>
    /\ startCamera(1, "fail", startRequests[1].body)

NextEnvelope ==
    \/ ProcessAnswered
    \/ StartRejected

SpecEnvelope == InitEnvelope /\ [][NextEnvelope]_vars

(***************************************************************************)
(* The two periodic activities of a running session left to themselves:    *)
(* the camera is running with Auto-Process on, the user does nothing, and  *)
(* the display refresh (every 100 ms) and the auto-process interval (every *)
(* 3000 ms) tick; every fetch may fail.  setInterval fires a callback for  *)
(* as long as its interval is not cleared, hence the weak fairness of the  *)
(* two ticks.                                                              *)
(***************************************************************************)
InitCycle ==
    /\ isCameraRunning = TRUE
    /\ startAcked = TRUE
    /\ isProcessing = FALSE
    /\ autoProcess = TRUE
    /\ voiceEnabled = FALSE
    /\ processIntervalRef =
           [active |-> TRUE, capResult |-> NoResult, capVoice |-> FALSE]
    /\ \E held \in StopTwiceResults :
           /\ result = held.result
           /\ navigationInstructions = held.navigationInstructions
           /\ annotatedImage = held.annotatedImage
    /\ frameCount = 0
    /\ error = ""
    /\ imgSrc = FALSE
    /\ intervalRef = 1
    /\ count = [id \in IntervalIds |-> 0]
    /\ frameFetches = <<>>
    /\ startRequests = <<>>
    /\ stopRequests = <<>>
    /\ startTimeouts = 0
    /\ requests = <<>>
    /\ speech = <<>>
    /\ engineCall = NoCall
    /\ overlayCall = NoCall
    /\ timers = IF intervalRef = 0 THEN {} ELSE {intervalRef}

NextCycle ==
    \/ FrameTick
    \/ FrameResponse
    \/ AutoProcessTick
    \/ ProcessResponse

SpecCycle ==
    /\ InitCycle /\ [][NextCycle]_vars
    /\ WF_vars(FrameTick) /\ WF_vars(AutoProcessTick)

(***************************************************************************)
(* Two processing requests outstanding: the camera is running with         *)
(* Auto-Process on and the interval has ticked twice before any answer     *)
(* (processFrame does not look at isProcessing).  Each request carries the *)
(* body the backend will answer it with; the answers arrive in any order.  *)
(***************************************************************************)
InitCompletion ==
    /\ isCameraRunning = TRUE
    /\ startAcked = TRUE
    /\ isProcessing = TRUE
    /\ autoProcess = TRUE
    /\ voiceEnabled = FALSE
    /\ processIntervalRef =
           [active |-> TRUE, capResult |-> NoResult, capVoice |-> FALSE]
    /\ result = NoResult
    /\ navigationInstructions = NoInstruction
    /\ annotatedImage = NoImage
    /\ frameCount = 1
    /\ error = ""
    /\ imgSrc = TRUE
    /\ intervalRef = 1
    /\ count = [id \in IntervalIds |-> IF id = 1 THEN 1 ELSE 0]
    /\ frameFetches = <<>>
    /\ startRequests = <<>>
    /\ stopRequests = <<>>
    /\ startTimeouts = 0
    /\ \E first \in Bodies : \E second \in Bodies :
           requests = <<[origin |-> "auto", capResult |-> NoResult,
                         capVoice |-> FALSE, stale |-> FALSE, body |-> first],
                        [origin |-> "auto", capResult |-> NoResult,
                         capVoice |-> FALSE, stale |-> FALSE, body |-> second]>>
    /\ speech = <<>>
    /\ engineCall = NoCall
    /\ overlayCall = NoCall
    /\ timers = IF intervalRef = 0 THEN {} ELSE {intervalRef}

\* Variant: the answer applied is always the one to the request issued last.
RequestAnsweredInIssueOrder ==
    \E i \in 1..Len(requests) :
        processResponse(i, parse(requests[Len(requests)].body))

RequestAnswered ==
    \E i \in 1..Len(requests) : processResponse(i, parse(requests[i].body))

NextCompletion == RequestAnswered

SpecCompletion == InitCompletion /\ [][NextCompletion]_vars

(***************************************************************************)
(* Start Camera clicked twice before the first start request is answered   *)
(* (the button stays rendered and enabled while !isCameraRunning), then    *)
(* the camera lifecycle and the display refresh: starts, their answers,    *)
(* their 500 ms timeouts, stops and frame ticks.                           *)
(***************************************************************************)
InitStartTwice ==
    /\ isCameraRunning = FALSE
    /\ isProcessing = FALSE
    /\ autoProcess = FALSE
    /\ voiceEnabled = FALSE
    /\ result = NoResult
    /\ navigationInstructions = NoInstruction
    /\ annotatedImage = NoImage
    /\ frameCount = 0
    /\ error = ""
    /\ imgSrc = FALSE
    /\ intervalRef = 0
    /\ timers = {}
    /\ count = [i \in IntervalIds |-> 0]
    /\ frameFetches = <<>>
    /\ processIntervalRef = NoInterval
    /\ startRequests = <<[capVoice |-> FALSE], [capVoice |-> FALSE]>>
    /\ stopRequests = <<>>
    /\ startTimeouts = 0
    /\ requests = <<>>
    /\ speech = <<>>
    /\ startAcked = FALSE
    /\ engineCall = NoCall
    /\ overlayCall = NoCall

NextStartTwice ==
    \/ StartCameraClick
    \/ StartCameraResponse
    \/ startFrameStreaming
    \/ StopCameraClick
    \/ StopCameraResponse
    \/ FrameTick
    \/ FrameResponse

SpecStartTwice == InitStartTwice /\ [][NextStartTwice]_vars

(***************************************************************************)
(* The overlay renderer on its own: drawDirectionOverlay() called twice in *)
(* a row from the same closure (result res, the two display settings) on   *)
(* the same image (natural width `width`, 0: no frame loaded).  The        *)
(* surface starts blank or as an earlier render of another result left it. *)
(***************************************************************************)
OverlayResults ==
    {NoResult} \cup { ProcessingResult("current", objects) :
                         objects \in EngineInputs }

OverlaySurfaces ==
    { BlankCanvas,
      drawDirectionOverlay(BlankCanvas, TRUE, TRUE,
          ProcessingResult("previous", <<DetectedObject("person", 2, 4)>>), 6) }

InitOverlay ==
    /\ InitSession
    /\ engineCall = NoCall
    /\ \E res \in OverlayResults : \E width \in EngineWidths :
       \E directions \in BOOLEAN : \E boundingBoxes \in BOOLEAN :
       \E surface \in OverlaySurfaces :
           overlayCall = [renders |-> 0, res |-> res, width |-> width,
                          showDirections |-> directions,
                          showBoundingBoxes |-> boundingBoxes,
                          start |-> surface, before |-> surface,
                          surface |-> surface]

OverlayRender ==
    /\ overlayCall.renders < 2
    /\ overlayCall' =
           [overlayCall EXCEPT
              !.renders = @ + 1,
              !.before = overlayCall.surface,
              !.surface = drawDirectionOverlay(overlayCall.surface,
                                               overlayCall.showDirections,
                                               overlayCall.showBoundingBoxes,
                                               overlayCall.res,
                                               overlayCall.width)]
    /\ UNCHANGED <<isCameraRunning, isProcessing, autoProcess, voiceEnabled,
                   result, navigationInstructions, annotatedImage, frameCount,
                   error, imgSrc, intervalRef, count, frameFetches,
                   processIntervalRef, startRequests, stopRequests,
                   startTimeouts, requests, speech, startAcked, engineCall,
                   timers>>

NextOverlay == OverlayRender

SpecOverlay == InitOverlay /\ [][NextOverlay]_vars

(***************************************************************************)
(* Properties.                                                             *)
(***************************************************************************)
Held(x, none) == x # none

\* C1: at most one processing request is outstanding at any time (an
\* auto-process tick that fires while a request is pending issues no new one).
C1_AtMostOneInFlight == Len(requests) <= 1

\* C2: a processing request that was in flight when the camera was stopped
\* is discarded when it resolves: the held result, instruction and annotated
\* image are left as they are (absent after the stop) and nothing is announced.
C2_LateResultDiscarded ==
    [][\A i \in 1..Len(requests) :
          (requests[i].stale /\ requests' = RemoveAt(requests, i))
             => /\ result' = result
                /\ navigationInstructions' = navigationInstructions
                /\ annotatedImage' = annotatedImage
                /\ speech' = speech]_vars

\* C3: there are never two outstanding processing requests of which one was
\* started by the manual trigger and the other by an auto-process tick.
C3_NoManualAutoOverlap ==
    ~ \E i, j \in 1..Len(requests) :
          requests[i].origin = "manual" /\ requests[j].origin = "auto"

\* C4: once a stop of the camera has completed, no display-refresh tick and
\* no auto-process tick fires until a later start has been acknowledged.  A
\* stop has completed and no start has been acknowledged since exactly when
\* startAcked holds and isCameraRunning does not.
C4_NoTickAfterStop ==
    [][(startAcked /\ ~isCameraRunning)
          => /\ Len(frameFetches') <= Len(frameFetches)
             /\ Len(requests') <= Len(requests)]_vars

\* C5: immediately after a stop of the camera completes, camera-running and
\* auto-process are false, the held result, instruction and annotated image
\* are absent and the frame counter is 0.
C5_StopResetsSession ==
    [][\A i \in 1..Len(stopRequests) :
          (stopRequests[i].resolves /\ stopRequests' = RemoveAt(stopRequests, i))
             => /\ isCameraRunning' = FALSE
                /\ autoProcess' = FALSE
                /\ result' = NoResult
                /\ navigationInstructions' = NoInstruction
                /\ annotatedImage' = NoImage
                /\ frameCount' = 0]_vars

\* C5 witness: a stop has completed while a processing request was in flight,
\* and the session holds its initial values.
C5_Witness ==
    /\ startAcked /\ ~isCameraRunning /\ ~autoProcess
    /\ stopRequests = <<>>
    /\ \E i \in 1..Len(requests) : requests[i].stale
    /\ result = NoResult /\ navigationInstructions = NoInstruction
    /\ annotatedImage = NoImage /\ frameCount = 0

C7_InstructionFromHeldResult ==
    Held(navigationInstructions, NoInstruction)
       => navigationInstructions =
              generateNavigationInstructions(result.detected_objects, result,
                                             naturalWidth)

ZoneOf(bbox, w) ==
    LET twiceCentre == bbox[1] + bbox[3]
    IN  IF 3 * twiceCentre < 2 * w THEN "right"
        ELSE IF 3 * twiceCentre > 4 * w THEN "left"
        ELSE "front"

objectsOfZone(objects, w, zone) ==
    SelectSeq(objects, LAMBDA o : ZoneOf(o.bounding_box, w) = zone)

\* C9: for every bounding box and every image width w > 0 the classifier
\* puts the box in exactly one zone, the one ZoneOf names; a centre exactly at
\* w / 3 or 2 w / 3 is FRONT.
C9_ZoneClassifier ==
    (engineCall.called /\ engineCall.width > 0 /\ engineCall.res # NoResult)
       => LET objs == engineCall.res.detected_objects
              w == engineCall.width
          IN  /\ engineCall.right = objectsOfZone(objs, w, "right")
              /\ engineCall.front = objectsOfZone(objs, w, "front")
              /\ engineCall.left = objectsOfZone(objs, w, "left")
              /\ Len(engineCall.right) + Len(engineCall.front)
                    + Len(engineCall.left) = Len(objs)

\* C9 witness: the classifier has put a box whose centre is exactly at w / 3
\* and a box whose centre is exactly at 2 w / 3 in the FRONT zone.
C9_Witness ==
    /\ engineCall.called /\ engineCall.width > 0
    /\ Len(engineCall.front) = 2
    /\ 3 * (engineCall.front[1].bounding_box[1]
              + engineCall.front[1].bounding_box[3]) = 2 * engineCall.width
    /\ 3 * (engineCall.front[2].bounding_box[1]
              + engineCall.front[2].bounding_box[3]) = 4 * engineCall.width

\* The first matching rule of the seven-rule decision tree for an object
\* sequence, and what each rule returns.
firstRule(objects, w) ==
    LET leftAll  == objectsOfZone(objects, w, "left")
        rightAll == objectsOfZone(objects, w, "right")
        F == SelectSeq(objectsOfZone(objects, w, "front"), isDangerous) # <<>>
        L == SelectSeq(leftAll, isDangerous) # <<>>
        R == SelectSeq(rightAll, isDangerous) # <<>>
    IN  IF F /\ ~L THEN 1
        ELSE IF F /\ ~R THEN 2
        ELSE IF F THEN 3
        ELSE IF leftAll = <<>> /\ rightAll = <<>> THEN 4
        ELSE IF L /\ ~R THEN 5
        ELSE IF R /\ ~L THEN 6
        ELSE 7

ruleOutput(k) ==
    CASE k = 1 -> [direction |-> "left", priority |-> "caution",
                   message |-> "Path blocked ahead. Move left."]
      [] k = 2 -> [direction |-> "right", priority |-> "caution",
                   message |-> "Path blocked ahead. Move right."]
      [] k = 3 -> [direction |-> "stop", priority |-> "danger",
                   message |-> "Stop! Obstacles in all directions."]
      [] k = 4 -> [direction |-> "forward", priority |-> "safe",
                   message |-> "Clear path ahead. Safe to proceed."]
      [] k = 5 -> [direction |-> "right", priority |-> "caution",
                   message |-> "Obstacle on left. Stay right."]
      [] k = 6 -> [direction |-> "left", priority |-> "caution",
                   message |-> "Obstacle on right. Stay left."]
      [] OTHER -> [direction |-> "forward", priority |-> "caution",
                   message |-> "Proceed with caution. Objects nearby."]

\* C10: for every object sequence the decision engine returns the direction,
\* priority and message of the first matching rule of the decision tree; the
\* empty sequence yields FORWARD, SAFE, "Clear path ahead. Safe to proceed.",
\* "No obstacles detected".
C10_FirstMatchingRule ==
    engineCall.called
       => LET out == ruleOutput(firstRule(engineCall.objects,
                                          widthOr640(engineCall.width)))
              nav == engineCall.nav
          IN  /\ nav.direction = out.direction
              /\ nav.priority = out.priority
              /\ nav.message = out.message
              /\ engineCall.objects = <<>> => nav.reason = "No obstacles detected"

\* The obstacles of a zone of an object sequence, in detection order.
obstaclesOfZone(objects, w, zone) ==
    SelectSeq(objectsOfZone(objects, w, zone), isDangerous)

\* C11: for an object sequence in which no label is (case-insensitively) an
\* obstacle label, the decision engine returns direction FORWARD with priority
\* SAFE or CAUTION, never DANGER and never STOP.
C11_NoObstacleNeverStops ==
    (engineCall.called
        /\ \A i \in 1..Len(engineCall.objects) :
               ~isDangerous(engineCall.objects[i]))
       => /\ engineCall.nav.direction = "forward"
          /\ engineCall.nav.priority \in {"safe", "caution"}

\* C12: when the FRONT zone of the object sequence holds an obstacle and its
\* LEFT zone holds none, the engine returns LEFT, CAUTION, "Path blocked
\* ahead. Move left." and the reason "Obstacle detected: " followed by the
\* labels of the FRONT obstacles in detection order, joined by ", ".
C12_FrontBlockedMoveLeft ==
    LET w == widthOr640(engineCall.width)
        objs == engineCall.objects
    IN  (engineCall.called
            /\ obstaclesOfZone(objs, w, "front") # <<>>
            /\ obstaclesOfZone(objs, w, "left") = <<>>)
           => engineCall.nav =
                  [direction |-> "left", priority |-> "caution",
                   message |-> "Path blocked ahead. Move left.",
                   reason |-> "Obstacle detected: "
                       \o join(labels(obstaclesOfZone(objs, w, "front")), ", ")]

\* C13: when the FRONT zone of the object sequence holds no obstacle, its
\* RIGHT zone (centre below a third of the width) holds an obstacle and its
\* LEFT zone holds none, the engine returns LEFT, CAUTION, "Obstacle on
\* right. Stay left." and the reason "Right side: " followed by the labels of
\* the RIGHT obstacles.
C13_RightObstacleStayLeft ==
    LET w == widthOr640(engineCall.width)
        objs == engineCall.objects
    IN  (engineCall.called
            /\ obstaclesOfZone(objs, w, "front") = <<>>
            /\ obstaclesOfZone(objs, w, "right") # <<>>
            /\ obstaclesOfZone(objs, w, "left") = <<>>)
           => engineCall.nav =
                  [direction |-> "left", priority |-> "caution",
                   message |-> "Obstacle on right. Stay left.",
                   reason |-> "Right side: "
                       \o join(labels(obstaclesOfZone(objs, w, "right")), ", ")]

\* C14: when each of the three zones of the object sequence holds an
\* obstacle, the engine returns STOP, DANGER, "Stop! Obstacles in all
\* directions." and the reason "Multiple obstacles detected".
C14_AllZonesBlockedStop ==
    LET w == widthOr640(engineCall.width)
        objs == engineCall.objects
    IN  (engineCall.called
            /\ obstaclesOfZone(objs, w, "front") # <<>>
            /\ obstaclesOfZone(objs, w, "left") # <<>>
            /\ obstaclesOfZone(objs, w, "right") # <<>>)
           => engineCall.nav =
                  [direction |-> "stop", priority |-> "danger",
                   message |-> "Stop! Obstacles in all directions.",
                   reason |-> "Multiple obstacles detected"]

\* C15: rendering the overlay is idempotent: a second render from the same
\* closure (same result, same display settings) on the same image leaves the
\* surface exactly as the first render left it.
C15_RenderIdempotent ==
    overlayCall.renders = 2 => overlayCall.surface = overlayCall.before

\* C15 witness: two renders with both display settings on have been made on
\* a surface that carried an earlier render, and the surface holds bands,
\* boxes, label tags and banners.
C15_Witness ==
    /\ overlayCall.renders = 2
    /\ overlayCall.showDirections /\ overlayCall.showBoundingBoxes
    /\ overlayCall.start # BlankCanvas
    /\ \A kind \in {"band", "box", "tag", "banner"} :
           \E k \in 1..Len(overlayCall.surface.ops) :
               overlayCall.surface.ops[k].op = kind

\* C16: the render triggered by the arrival of a processing result paints
\* the overlay of the ProcessingResult that is held at the time of the
\* render, that is, of the result that has just been applied.
C16_RenderFromHeldResult ==
    [][\A i \in 1..Len(requests) :
          (requests' = RemoveAt(requests, i) /\ error' = "" /\ isCameraRunning)
             => resultRender(requests[i], naturalWidth)
                   = drawDirectionOverlay(BlankCanvas, TRUE, TRUE, result',
                                          naturalWidth)]_vars

C18_EnableIsAnnounced ==
    [][(~voiceEnabled /\ voiceEnabled')
          => /\ speech' # <<>>
             /\ speech'[1].text = "Voice guidance enabled"]_vars

\* C19: a step that applies a response and computes a NavigationInstruction
\* from it speaks the instruction's message if the voice flag holds at that
\* moment, and speaks nothing if it does not.  A response is applied exactly
\* when a request leaves the set of requests in flight and the error is
\* cleared; an instruction is computed exactly when one is then held.
C19_SpokenIffVoiceEnabled ==
    [][(Len(requests') < Len(requests) /\ error' = ""
           /\ Held(navigationInstructions', NoInstruction))
          => /\ voiceEnabled
                   => (speech' # <<>>
                         /\ speech'[1].text = navigationInstructions'.message)
             /\ ~voiceEnabled => speech' = speech]_vars

\* C20: the step that completes a stop of the camera leaves no utterance
\* that was being spoken before it: afterwards the synthesiser is silent or
\* speaks the stop announcement, whatever the voice flag.
C20_StopCancelsSpeech ==
    [][\A i \in 1..Len(stopRequests) :
          (stopRequests[i].resolves /\ stopRequests' = RemoveAt(stopRequests, i)
              /\ speech # <<>>)
             => \/ speech' = <<>>
                \/ speech'[1].text = "Camera stopped"]_vars

answered(reqs) == reqs[1].body

\* C22: a 2xx processing answer that lacks a required result field, in the
\* nested or the flat envelope, or has neither envelope, sets a visible error
\* and leaves the held result, instruction and annotated image as they were.
C22_MalformedRejected ==
    [][(/\ requests # <<>> /\ requests' = <<>>
        /\ answered(requests).status = "2xx"
        /\ answered(requests).fields # {"caption", "detected_objects"})
           => /\ error' # ""
              /\ UNCHANGED <<result, navigationInstructions,
                             annotatedImage>>]_vars

\* C23: a 2xx processing answer whose result has every required field leaves
\* the same held result and the same instruction whichever envelope carries
\* it: the result of the body and the instruction computed from it.
C23_EitherEnvelopeAccepted ==
    [][(/\ requests # <<>> /\ requests' = <<>>
        /\ answered(requests).status = "2xx"
        /\ answered(requests).fields = {"caption", "detected_objects"})
           => /\ result' = answered(requests).data
              /\ navigationInstructions' =
                     instructionFor(requests[1], answered(requests).data)]_vars

\* C24: after a non-2xx answer to a processing or a camera-start request that
\* carries a message, under `error` or under `detail`, the error shown is a
\* message the answer carried, and the held result and instruction are as
\* they were.
C24_ErrorMessageShown ==
    [][/\ (/\ requests # <<>> /\ requests' = <<>>
           /\ answered(requests).status = "non2xx"
           /\ \/ answered(requests).error # ""
           \/ answered(requests).detail # "")
              => /\ error' \in ({answered(requests).error,
                                 answered(requests).detail} \ {""})
                 /\ UNCHANGED <<result, navigationInstructions>>
       /\ (/\ startRequests # <<>> /\ startRequests' = <<>>
           /\ \/ answered(startRequests).error # ""
              \/ answered(startRequests).detail # "")
              => /\ error' \in ({answered(startRequests).error,
                                 answered(startRequests).detail} \ {""})
                 /\ UNCHANGED <<result, navigationInstructions>>]_vars

failedFetch ==
    \E k \in 1..Len(frameFetches) :
        /\ frameFetches' = RemoveAt(frameFetches, k)
        /\ frameFetches[k] = intervalRef
        /\ count'[intervalRef] = count[intervalRef]

\* C26: a failed frame fetch is skipped: the displayed frame, the frame
\* counter, the held result and the instruction are as they were, and the
\* callback starts no further fetch.
C26_FailedFetchSkipped ==
    [][failedFetch
          => /\ UNCHANGED <<imgSrc, frameCount, result,
                            navigationInstructions>>
             /\ Len(frameFetches') = Len(frameFetches) - 1]_vars

\* A frame is displayed and counted, a result is held, the display refresh
\* is live and no fetch is in flight: the state a skipped fetch leaves.
C26_Witness ==
    /\ isCameraRunning /\ intervalRef # 0
    /\ frameFetches = <<>>
    /\ imgSrc /\ frameCount = count[intervalRef]
    /\ result # NoResult /\ navigationInstructions # NoInstruction

\* C27: classifying against an image width of zero fails with an
\* InvalidDimension error instead of returning a zone: no object of the
\* result is put in any zone.
C27_ZeroWidthRejected ==
    (engineCall.called /\ engineCall.width = 0)
       => /\ engineCall.right = <<>>
          /\ engineCall.front = <<>>
          /\ engineCall.left = <<>>

\* C28: each applied response replaces the held result as a whole, in the
\* order in which the responses complete: whichever outstanding request a
\* well-formed answer belongs to, the held result after it is the result of
\* that answer, so after two outstanding requests have both been answered
\* the held result is that of the answer that completed last.
C28_LastCompletedWins ==
    [][\A i \in 1..Len(requests) :
          (/\ requests' = RemoveAt(requests, i)
           /\ parse(requests[i].body).kind \in {"nested", "flat"})
             => result' = resultOf(requests[i].body)]_vars

\* Both outstanding requests have been answered, the last one well-formed
\* with a detected person.
C28_Witness ==
    /\ requests = <<>> /\ ~isProcessing /\ error = ""
    /\ result = ProcessingResult("person ahead",
                                 <<DetectedObject("person", 300, 340)>>)
    /\ navigationInstructions # NoInstruction

\* The paint operations of one kind on a surface, and whether one of them is
\* for the given zone.
opsOf(surface, kind) == SelectSeq(surface.ops, LAMBDA o : o.op = kind)

painted(surface, kind, zone) ==
    \E k \in 1..Len(surface.ops) :
        surface.ops[k].op = kind /\ surface.ops[k].zone = zone

\* The zone the classifier assigns to an object of the result for the image
\* width, and the colour of that zone (green RIGHT, blue FRONT, orange LEFT).
classifiedZone(obj, res, naturalW) ==
    CHOOSE zone \in {"right", "front", "left"} :
        \E k \in 1..Len(getObjectsInZone(zone, res, naturalW)) :
            getObjectsInZone(zone, res, naturalW)[k] = obj

\* A render of the closure's result has painted the surface.
rendered ==
    /\ overlayCall.renders >= 1
    /\ overlayCall.showDirections /\ overlayCall.showBoundingBoxes
    /\ overlayCall.res # NoResult

\* C29: in every render the colour of each bounding box and of its label tag
\* is the colour of the zone the classifier assigns to the object for the
\* same image width, a centre exactly on a boundary included (FRONT, blue).
C29_BoxColourIsZoneColour ==
    rendered
       => LET objs == overlayCall.res.detected_objects
              boxOps == opsOf(overlayCall.surface, "box")
              tagOps == opsOf(overlayCall.surface, "tag")
          IN  /\ Len(boxOps) = Len(objs) /\ Len(tagOps) = Len(objs)
              /\ \A k \in 1..Len(objs) :
                     LET zoneColour ==
                             bandColor(classifiedZone(objs[k], overlayCall.res,
                                                      overlayCall.width))
                     IN  /\ boxOps[k].color = zoneColour
                         /\ tagOps[k].color = zoneColour

\* C29 witness: a render has painted, blue, the box of an object whose centre
\* is exactly at a third of the image width and the box of one whose centre
\* is exactly at two thirds.
C29_Witness ==
    /\ rendered /\ overlayCall.width > 0
    /\ \E j, k \in 1..Len(overlayCall.res.detected_objects) :
           LET objs == overlayCall.res.detected_objects
               boxOps == opsOf(overlayCall.surface, "box")
           IN  /\ 3 * (objs[j].bounding_box[1] + objs[j].bounding_box[3])
                     = 2 * overlayCall.width
               /\ 3 * (objs[k].bounding_box[1] + objs[k].bounding_box[3])
                     = 4 * overlayCall.width
               /\ boxOps[j].color = "#2196F3" /\ boxOps[k].color = "#2196F3"

\* C30: after a render with a result present, the band and the banner of a
\* zone are on the surface if and only if the direction overlay is enabled
\* and the zone holds at least one object of the result; with the direction
\* overlay disabled the surface carries no band and no banner.
C30_BandsIffDirectionsAndOccupied ==
    (overlayCall.renders >= 1 /\ overlayCall.res # NoResult)
       => \A zone \in {"right", "front", "left"} :
             LET occupied ==
                     Len(getObjectsInZone(zone, overlayCall.res,
                                          overlayCall.width)) > 0
                 wanted == overlayCall.showDirections /\ occupied
             IN  /\ painted(overlayCall.surface, "band", zone) <=> wanted
                 /\ painted(overlayCall.surface, "banner", zone) <=> wanted

\* C31: every render first clears the surface and then draws a box and a
\* label tag for each detected object if and only if bounding-box display is
\* enabled and a result is present, whatever the direction-overlay setting:
\* after a render the surface carries one box and one tag per object of the
\* result when boxes are wanted and none otherwise, and nothing at all when
\* the result has no object.
C31_BoxesIffBoundingBoxes ==
    overlayCall.renders >= 1
       => LET objs == overlayCall.res.detected_objects
              wanted == overlayCall.showBoundingBoxes
                           /\ overlayCall.res # NoResult
              expected == IF wanted THEN Len(objs) ELSE 0
          IN  /\ Len(opsOf(overlayCall.surface, "box")) = expected
              /\ Len(opsOf(overlayCall.surface, "tag")) = expected
              /\ objs = <<>> => overlayCall.surface.ops = <<>>

\* C32: the decision engine returns priority SAFE only when no zone of the
\* detected objects holds an obstacle; with an obstacle in some zone the
\* priority is CAUTION or DANGER.
C32_SafeOnlyWithoutObstacle ==
    LET w == widthOr640(engineCall.width)
        objs == engineCall.objects
    IN  engineCall.called
           => /\ engineCall.nav.priority = "safe"
                    => \A zone \in {"left", "front", "right"} :
                           obstaclesOfZone(objs, w, zone) = <<>>
              /\ (\E zone \in {"left", "front", "right"} :
                       obstaclesOfZone(objs, w, zone) # <<>>)
                    => engineCall.nav.priority \in {"caution", "danger"}

\* C37: the decision engine never steers toward a side that holds an
\* obstacle: when it returns LEFT the LEFT zone of the detected objects holds
\* no obstacle, when it returns RIGHT the RIGHT zone holds none, and it
\* returns STOP exactly when the priority is DANGER.
C37_NeverSteersIntoObstacle ==
    LET w == widthOr640(engineCall.width)
        objs == engineCall.objects
    IN  engineCall.called
           => /\ engineCall.nav.direction = "left"
                    => obstaclesOfZone(objs, w, "left") = <<>>
              /\ engineCall.nav.direction = "right"
                    => obstaclesOfZone(objs, w, "right") = <<>>
              /\ engineCall.nav.direction = "stop"
                    <=> engineCall.nav.priority = "danger"

\* C33: in every reachable state at most one display-refresh interval is
\* active, and it is the one intervalRef holds.
C33_OneRefreshTimer ==
    /\ Cardinality(timers) <= 1
    /\ timers = IF intervalRef = 0 THEN {} ELSE {intervalRef}

\* C33 witness: both starts clicked before any answer have been acknowledged,
\* startFrameStreaming has replaced an interval one of whose fetches is still
\* in flight, and the new interval is the only one active.
C33_Witness ==
    /\ startAcked /\ isCameraRunning
    /\ startRequests = <<>> /\ startTimeouts = 0
    /\ intervalRef # 0 /\ timers = {intervalRef}
    /\ \E k \in 1..Len(frameFetches) : frameFetches[k] # intervalRef

\* C34: in every reachable state auto-process enabled implies camera running,
\* and with it the auto-process interval exists only while the camera runs.
C34_AutoImpliesRunning ==
    /\ autoProcess => isCameraRunning
    /\ processIntervalRef.active => (autoProcess /\ isCameraRunning)

\* C34 witness: the camera has been stopped while Auto-Process was on (a
\* request of the auto-process interval is still in flight), and the flag and
\* the interval are off.
C34_Witness ==
    /\ startAcked /\ ~isCameraRunning /\ ~autoProcess
    /\ ~processIntervalRef.active
    /\ \E i \in 1..Len(requests) :
           requests[i].origin = "auto" /\ requests[i].stale

\* C35: the in-flight flag is accurate: in every reachable state the
\* processing flag is true whenever at least one processing request is
\* outstanding.
C35_FlagWhileOutstanding == requests # <<>> => isProcessing

\* C36: once every processing request has resolved, whether by a well-formed
\* success, a malformed success, a non-2xx answer or an exception, the
\* processing flag is false: it is never left true with nothing outstanding.
C36_FlagClearedWhenResolved == requests = <<>> => ~isProcessing

\* C36 witness: the only outstanding request has been answered 2xx with an
\* unknown structure while the camera runs, and the flag is false.
C36_Witness ==
    /\ isCameraRunning
    /\ requests = <<>> /\ ~isProcessing
    /\ error = "Invalid API response structure"

\* C38: in every reachable state in which the camera is not running the
\* frame counter is 0 and no frame is displayed; a frame fetch that was in
\* flight when the camera was stopped changes neither when it completes.
C38_StoppedShowsNoFrame ==
    ~isCameraRunning => (frameCount = 0 /\ ~imgSrc)

\* C39: a stop request that fails with an exception has no effect on the
\* session: camera-running, auto-process, the held result, instruction and
\* annotated image, the frame counter, the displayed frame and both periodic
\* activities are as they were, and only the error message is set.
C39_FailedStopOnlySetsError ==
    [][\A i \in 1..Len(stopRequests) :
          (~stopRequests[i].resolves /\ stopRequests' = RemoveAt(stopRequests, i))
             => /\ error' = "Error stopping camera"
                /\ UNCHANGED <<isCameraRunning, autoProcess, voiceEnabled,
                               result, navigationInstructions, annotatedImage,
                               frameCount, imgSrc, isProcessing, intervalRef,
                               timers, count, frameFetches, processIntervalRef,
                               requests, startRequests, startTimeouts,
                               speech>>]_vars

\* C39 witness: a stop has failed in a running session with Auto-Process on,
\* a result held and a frame displayed; both intervals are still active.
C39_Witness ==
    /\ error = "Error stopping camera" /\ stopRequests = <<>>
    /\ isCameraRunning /\ autoProcess
    /\ intervalRef # 0 /\ processIntervalRef.active
    /\ result # NoResult /\ imgSrc /\ frameCount > 0

====
